---- MODULE Spec2Model ----
(***************************************************************************)
(* Model of src/main.py: the batch font subsetting driver.                 *)
(*                                                                         *)
(* File names are sequences of one-character strings, so that the stem /   *)
(* suffix split, the case conversions, the glob match and the output file  *)
(* name formatting are computed the way the code computes them.            *)
(* A font file is identified by its name inside sourceFont and an output   *)
(* file by its name inside targetFont (os.path.join only prefixes the      *)
(* fixed directory).                                                       *)
(***************************************************************************)
EXTENDS Integers, Sequences, FiniteSets, TLC

----------------------------------------------------------------------------
(* Bounds of the model *)

\* most entries in the source directory
MaxFiles == 2
\* largest font count a collection reports
MaxCount == 2
\* most entries in the source directory where file names match case-insensitively
MaxFoldFiles == 1

----------------------------------------------------------------------------
(* Characters and strings *)

\* str.lower() on the alphabet of the model
LowerChar(c) ==
    CASE c = "T" -> "t"
      [] c = "F" -> "f"
      [] c = "C" -> "c"
      [] c = "O" -> "o"
      [] c = "W" -> "w"
      [] OTHER -> c

\* str.upper() on the alphabet of the model
UpperChar(c) ==
    CASE c = "t" -> "T"
      [] c = "f" -> "F"
      [] c = "c" -> "C"
      [] c = "o" -> "O"
      [] c = "w" -> "W"
      [] OTHER -> c

Lower(s) == [k \in 1..Len(s) |-> LowerChar(s[k])]

Upper(s) == [k \in 1..Len(s) |-> UpperChar(s[k])]

\* position of the last "." of a name, 0 when there is none
LastDot(s) ==
    LET dots == {k \in 1..Len(s) : s[k] = "."}
    IN  IF dots = {} THEN 0 ELSE CHOOSE k \in dots : \A j \in dots : j <= k

\* pathlib: a name has a suffix when its last dot is neither its first nor
\* its last character
HasSuffix(s) == LastDot(s) > 1 /\ LastDot(s) < Len(s)

\* Path(name).suffix
Suffix(s) == IF HasSuffix(s) THEN SubSeq(s, LastDot(s), Len(s)) ELSE <<>>

\* Path(name).stem
Stem(s) == IF HasSuffix(s) THEN SubSeq(s, 1, LastDot(s) - 1) ELSE s

Digit == <<"0", "1", "2", "3", "4", "5", "6", "7", "8", "9">>

\* str(n) of a non-negative integer (the f-string formatting of font_index)
RECURSIVE Str(_)
Str(n) == IF n < 10 THEN <<Digit[n + 1]>> ELSE Str(n \div 10) \o <<Digit[(n % 10) + 1]>>

DigitValue(c) == CHOOSE d \in 0..9 : Digit[d + 1] = c

\* int(s) of a string of decimal digits
RECURSIVE ParseInt(_)
ParseInt(s) ==
    IF Len(s) = 0 THEN 0
    ELSE 10 * ParseInt(SubSeq(s, 1, Len(s) - 1)) + DigitValue(s[Len(s)])

----------------------------------------------------------------------------
(* get_font_files *)

\* font_extensions, each pattern without its leading "*"
font_extensions ==
    << <<".", "t", "t", "f">>,
       <<".", "o", "t", "f">>,
       <<".", "w", "o", "f", "f">>,
       <<".", "w", "o", "f", "f", "2">>,
       <<".", "t", "t", "c">> >>

EndsWith(s, tail) ==
    /\ Len(s) >= Len(tail)
    /\ SubSeq(s, Len(s) - Len(tail) + 1, Len(s)) = tail

\* glob.glob(os.path.join(source_dir, "*" + tail)) on one directory entry:
\* fnmatch of the whole name, names starting with "." are skipped, and
\* os.path.normcase folds the case of both sides where the platform's
\* matching is case-insensitive (caseFold)
GlobMatch(name, tail, fold) ==
    /\ Len(name) > 0
    /\ name[1] # "."
    /\ IF fold THEN EndsWith(Lower(name), Lower(tail)) ELSE EndsWith(name, tail)

\* the entries of the listing that match one pattern, in listing order
RECURSIVE GlobOne(_, _, _)
GlobOne(names, tail, fold) ==
    IF names = <<>> THEN <<>>
    ELSE (IF GlobMatch(Head(names), tail, fold) THEN <<Head(names)>> ELSE <<>>)
         \o GlobOne(Tail(names), tail, fold)

\* the loop of get_font_files over font_extensions[k..]
RECURSIVE GlobFrom(_, _, _)
GlobFrom(k, names, fold) ==
    IF k > Len(font_extensions) THEN <<>>
    ELSE GlobOne(names, font_extensions[k], fold)
         \o GlobOne(names, Upper(font_extensions[k]), fold)
         \o GlobFrom(k + 1, names, fold)

get_font_files(names, fold) == GlobFrom(1, names, fold)

----------------------------------------------------------------------------
(* get_font_count_in_collection *)

\* what opening the file with ttLib.TTFont does: it succeeds, it raises
\* TTLibFileIsCollectionError whose message holds "between 0 and <digits>",
\* it raises that error with another message, or it raises something else
OpenOutcomes ==
    {[kind |-> "single", digits |-> <<>>],
     [kind |-> "collection_nomatch", digits |-> <<>>],
     [kind |-> "error", digits |-> <<>>]}
    \cup {[kind |-> "collection", digits |-> Str(n)] : n \in 0..(MaxCount - 1)}

get_font_count_in_collection(open) ==
    CASE open.kind = "single" -> 1
      [] open.kind = "collection" -> ParseInt(open.digits) + 1
      [] OTHER -> 0

----------------------------------------------------------------------------
(* compress_single_font *)

\* font_index=None
None == -1

\* OutputFile that leaves the index out of the name
OutputFileNoIndex(font_file, font_index) ==
    LET font_ext == Lower(Suffix(font_file))
    IN  IF font_index # None \/ font_ext = <<".", "t", "t", "c">>
        THEN Stem(font_file) \o <<"-", "s", "u", "b", "s", "e", "t", ".", "t", "t", "f">>
        ELSE Stem(font_file) \o <<"-", "s", "u", "b", "s", "e", "t">> \o font_ext

\* the output file name of a job (lines 79-90)
OutputFile(font_file, font_index) ==
    LET font_name == Stem(font_file)
        font_ext  == Lower(Suffix(font_file))
        subset    == <<"-", "s", "u", "b", "s", "e", "t">>
        ttf       == <<".", "t", "t", "f">>
    IN  IF font_index # None
        THEN font_name \o <<"-">> \o Str(font_index) \o subset \o ttf
        ELSE IF font_ext = <<".", "t", "t", "c">>
             THEN font_name \o subset \o ttf
             ELSE font_name \o subset \o font_ext

\* What the environment does to one call: whether the two os.path.exists
\* checks pass, what subprocess.run does (FileNotFoundError when the
\* executable is absent, or an exit status), and what the two
\* os.path.getsize calls and the ratio do after exit status 0 (both sizes
\* read, FileNotFoundError for a file that is not there, or a source of
\* 0 bytes and so ZeroDivisionError).
CallOutcomes(tool) ==
    {[font_exists |-> FALSE, text_exists |-> TRUE, run |-> "none", size |-> "none"],
     [font_exists |-> TRUE, text_exists |-> FALSE, run |-> "none", size |-> "none"]}
    \cup (IF tool
          THEN {[font_exists |-> TRUE, text_exists |-> TRUE, run |-> "exit_nonzero", size |-> "none"]}
               \cup {[font_exists |-> TRUE, text_exists |-> TRUE, run |-> "exit_zero", size |-> z] :
                    z \in {"ok", "not_found", "zero_source"}}
          ELSE {[font_exists |-> TRUE, text_exists |-> TRUE, run |-> "not_found", size |-> "none"]})

\* compress_single_font whose FileNotFoundError handler reports success
compress_single_font_NotFoundOk(font_file, font_index, o) ==
    IF ~o.font_exists
    THEN [ret |-> FALSE, diag |-> "font_missing", invoked |-> FALSE, output_file |-> <<>>]
    ELSE IF ~o.text_exists
    THEN [ret |-> FALSE, diag |-> "text_missing", invoked |-> FALSE, output_file |-> <<>>]
    ELSE LET output_file == OutputFile(font_file, font_index)
             out(r, d) == [ret |-> r, diag |-> d, invoked |-> TRUE, output_file |-> output_file]
         IN  CASE o.run = "not_found" -> out(TRUE, "tool_not_found")
               [] o.run = "exit_nonzero" -> out(FALSE, "tool_failed")
               [] o.run = "exit_zero" /\ o.size = "ok" -> out(TRUE, "success")
               [] o.run = "exit_zero" /\ o.size = "not_found" -> out(TRUE, "tool_not_found")
               [] OTHER -> out(FALSE, "unexpected_error")

\* the value compress_single_font returns and the diagnostic it prints last
compress_single_font(font_file, font_index, o) ==
    IF ~o.font_exists
    THEN [ret |-> FALSE, diag |-> "font_missing", invoked |-> FALSE, output_file |-> <<>>]
    ELSE IF ~o.text_exists
    THEN [ret |-> FALSE, diag |-> "text_missing", invoked |-> FALSE, output_file |-> <<>>]
    ELSE LET output_file == OutputFile(font_file, font_index)
             out(r, d) == [ret |-> r, diag |-> d, invoked |-> TRUE, output_file |-> output_file]
         IN  CASE o.run = "not_found" -> out(FALSE, "tool_not_found")
               [] o.run = "exit_nonzero" -> out(FALSE, "tool_failed")
               [] o.run = "exit_zero" /\ o.size = "ok" -> out(TRUE, "success")
               [] o.run = "exit_zero" /\ o.size = "not_found" -> out(FALSE, "tool_not_found")
               [] OTHER -> out(FALSE, "unexpected_error")

----------------------------------------------------------------------------
(* batch_compress_fonts *)

\* the entries the source directory can hold
Names ==
    { <<"a", ".", "t", "t", "f">>,
      <<"a", ".", "T", "t", "f">>,
      <<"a", ".", "t", "t", "c">>,
      <<"a", "-", "0", ".", "t", "t", "f">>,
      <<"c", ".", "W", "O", "F", "F", "2">>,
      <<"n", ".", "t", "x", "t">> }

\* the directory listings: up to MaxFiles distinct entries in any order
RECURSIVE Listings(_)
Listings(n) ==
    IF n = 0 THEN { <<>> }
    ELSE LET shorter == Listings(n - 1)
         IN  shorter \cup
             {Append(l, x) : l \in {m \in shorter : Len(m) = n - 1},
                             x \in Names}

Distinct(l) == \A j, k \in 1..Len(l) : j # k => l[j] # l[k]

VARIABLES
    listing,            \* os.listdir order of sourceFont
    caseFold,           \* the platform matches file names case-insensitively
    source_dir_exists,  \* os.path.exists(source_dir) at the start
    text_file_exists,   \* os.path.exists(text_file) at the start
    toolPresent,        \* the fonttools executable can be started
    libPresent,         \* the fontTools package can be imported
    pc,                 \* position in batch_compress_fonts
    font_files,
    i,                  \* position of the current file in font_files
    font_count,
    font_index,         \* next index of range(font_count)
    successful_count,
    failed_count,
    total_fonts_processed,
    jobs,               \* the calls of compress_single_font so far: the position
                        \* of the font file in font_files, the index passed and
                        \* whether the call went on to build its command
    reported,           \* per file position, the inspector's count (None: not inspected)
    last,               \* outcome of the latest compress_single_font call
    returned,           \* batch_compress_fonts has returned
    result              \* its return value

env == <<listing, caseFold, source_dir_exists, text_file_exists, toolPresent, libPresent>>

counters == <<successful_count, failed_count, total_fonts_processed>>

vars == <<listing, caseFold, source_dir_exists, text_file_exists, toolPresent,
          libPresent, pc, font_files, i, font_count, font_index,
          successful_count, failed_count, total_fonts_processed, jobs,
          reported, last, returned, result>>

NoCall ==
    [ret |-> FALSE, diag |-> "none", invoked |-> FALSE, output_file |-> <<>>,
     run |-> "none", size |-> "none"]

Init ==
    /\ caseFold \in BOOLEAN
    /\ listing \in {l \in Listings(IF caseFold THEN MaxFoldFiles ELSE MaxFiles) :
                       Distinct(l)}
    /\ source_dir_exists \in BOOLEAN
    /\ text_file_exists \in BOOLEAN
    /\ toolPresent \in BOOLEAN
    /\ libPresent \in BOOLEAN
    /\ pc = "start"
    /\ font_files = <<>>
    /\ i = 0
    /\ font_count = 0
    /\ font_index = 0
    /\ successful_count = 0
    /\ failed_count = 0
    /\ total_fonts_processed = 0
    /\ jobs = <<>>
    /\ reported = <<>>
    /\ last = NoCall
    /\ returned = FALSE
    /\ result = FALSE

\* the precondition check without the character-list file
PreconditionsDirOnly(dir_exists, text_exists) == dir_exists

\* lines 151-157: the two fatal precondition checks
PreconditionsHold(dir_exists, text_exists) == dir_exists /\ text_exists

\* a tally that counts no failure
TallyNoFailure(ok, s, f, t) ==
    [successful_count |-> IF ok THEN s + 1 ELSE s,
     failed_count |-> f,
     total_fonts_processed |-> t + 1]

\* lines 194-198, 201-205, 208-212: the tally after one call
Tally(ok, s, f, t) ==
    [successful_count |-> IF ok THEN s + 1 ELSE s,
     failed_count |-> IF ok THEN f ELSE f + 1,
     total_fonts_processed |-> t + 1]

\* a fan-out test that lets only the count 1 through as one font
FansOutUnlessOne(count) == count # 1

\* line 189: a collection is fanned out per index
FansOut(count) == count > 1

\* line 192: range(font_count) has another index after this one
MoreIndices(index, count) == index + 1 < count

\* a result that accepts zero successes
BatchResultNonNegative(s) == s >= 0

\* line 227
BatchResult(s) == s > 0

\* one call of compress_single_font from the loop and the tally after it
RunJob(file_no, font_file, index, o) ==
    LET r == compress_single_font(font_file, index, o)
        t == Tally(r.ret, successful_count, failed_count, total_fonts_processed)
    IN  /\ last' = [ret |-> r.ret, diag |-> r.diag, invoked |-> r.invoked,
                    output_file |-> r.output_file, run |-> o.run, size |-> o.size]
        /\ jobs' = Append(jobs, [file_no |-> file_no, font_index |-> index,
                                 invoked |-> r.invoked])
        /\ successful_count' = t.successful_count
        /\ failed_count' = t.failed_count
        /\ total_fonts_processed' = t.total_fonts_processed

\* lines 151-157: a missing source directory or character-list file
AbortPrecondition ==
    /\ pc = "start"
    /\ ~PreconditionsHold(source_dir_exists, text_file_exists)
    /\ pc' = "aborted"
    /\ returned' = TRUE
    /\ result' = FALSE
    /\ UNCHANGED <<env, font_files, i, font_count, font_index, counters, jobs,
                   reported, last>>

\* lines 160-179: discovery, the empty check and the counters' initialisation
Discover ==
    /\ pc = "start"
    /\ PreconditionsHold(source_dir_exists, text_file_exists)
    /\ font_files' = get_font_files(listing, caseFold)
    /\ IF font_files' = <<>>
       THEN pc' = "aborted" /\ returned' = TRUE /\ result' = FALSE
       ELSE pc' = "loop" /\ UNCHANGED <<returned, result>>
    /\ UNCHANGED <<env, i, font_count, font_index, counters, jobs, reported, last>>

IsCollectionName(font_file) == Lower(Suffix(font_file)) = <<".", "t", "t", "c">>

\* lines 181-186, 206-212: the next file is not a collection
ProcessFont ==
    /\ pc = "loop"
    /\ i < Len(font_files)
    /\ ~IsCollectionName(font_files[i + 1])
    /\ i' = i + 1
    /\ \E o \in CallOutcomes(toolPresent) : RunJob(i + 1, font_files[i + 1], None, o)
    /\ reported' = Append(reported, None)
    /\ UNCHANGED <<env, pc, font_files, font_count, font_index, returned, result>>

\* lines 181-190: the next file is a collection and is inspected; without the
\* fontTools package the import fails inside the try, the first except
\* clause then evaluates the unbound ttLib, and the error leaves the run
InspectCollection ==
    /\ pc = "loop"
    /\ i < Len(font_files)
    /\ IsCollectionName(font_files[i + 1])
    /\ i' = i + 1
    /\ IF libPresent
       THEN \E open \in OpenOutcomes :
               /\ font_count' = get_font_count_in_collection(open)
               /\ reported' = Append(reported, font_count')
               /\ pc' = IF FansOut(font_count') THEN "fanout" ELSE "single"
       ELSE /\ pc' = "crashed"
            /\ UNCHANGED <<font_count, reported>>
    /\ font_index' = 0
    /\ UNCHANGED <<env, font_files, counters, jobs, last, returned, result>>

\* lines 192-198: one index of a fanned-out collection
ProcessIndex ==
    /\ pc = "fanout"
    /\ \E o \in CallOutcomes(toolPresent) : RunJob(i, font_files[i], font_index, o)
    /\ font_index' = font_index + 1
    /\ pc' = IF MoreIndices(font_index, font_count) THEN "fanout" ELSE "loop"
    /\ UNCHANGED <<env, font_files, i, font_count, reported, returned, result>>

\* lines 199-205: a collection handled as one font
ProcessCollectionAsOne ==
    /\ pc = "single"
    /\ \E o \in CallOutcomes(toolPresent) : RunJob(i, font_files[i], None, o)
    /\ pc' = "loop"
    /\ UNCHANGED <<env, font_files, i, font_count, font_index, reported,
                   returned, result>>

\* lines 214-227: the summary and the return value
Summary ==
    /\ pc = "loop"
    /\ i = Len(font_files)
    /\ pc' = "done"
    /\ returned' = TRUE
    /\ result' = BatchResult(successful_count)
    /\ UNCHANGED <<env, font_files, i, font_count, font_index, counters, jobs,
                   reported, last>>

Next ==
    \/ AbortPrecondition
    \/ Discover
    \/ ProcessFont
    \/ InspectCollection
    \/ ProcessIndex
    \/ ProcessCollectionAsOne
    \/ Summary

Spec == Init /\ [][Next]_vars

TypeOK ==
    /\ pc \in {"start", "loop", "fanout", "single", "done", "aborted", "crashed"}
    /\ i \in 0..Len(font_files)
    /\ successful_count \in Nat
    /\ failed_count \in Nat
    /\ total_fonts_processed \in Nat

----------------------------------------------------------------------------
(* Properties *)

\* the calls made for the file at position p of font_files
JobsOf(p) == SelectSeq(jobs, LAMBDA j : j.file_no = p)

\* the output path compress_single_font derives from the arguments of call k
JobOutput(k) == OutputFile(font_files[jobs[k].file_no], jobs[k].font_index)

\* a call was made in this step
JobStep == Len(jobs') = Len(jobs) + 1

\* the calls a finished run owes the file at position p
Covered(p) ==
    IF reported[p] > 1 THEN Len(JobsOf(p)) = reported[p] ELSE Len(JobsOf(p)) = 1

\* the extension allowlist of the font discovery, matched case-insensitively
IsFontName(name) ==
    \E k \in 1..Len(font_extensions) : Lower(Suffix(name)) = font_extensions[k]

Occurrences(seq, x) == Cardinality({k \in 1..Len(seq) : seq[k] = x})

\* C1: successful_count + failed_count = total_fonts_processed in every state
\* of the run, and every call of compress_single_font adds one to exactly one
\* of the two counters (the successful one exactly when the call returned
\* True) and one to the total; the counters change in no other step.
C1_CountersBalance ==
    /\ [](successful_count + failed_count = total_fonts_processed)
    /\ [][IF JobStep
          THEN /\ total_fonts_processed' = total_fonts_processed + 1
               /\ \/ /\ last'.ret
                     /\ successful_count' = successful_count + 1
                     /\ failed_count' = failed_count
                  \/ /\ ~last'.ret
                     /\ successful_count' = successful_count
                     /\ failed_count' = failed_count + 1
          ELSE counters' = counters /\ jobs' = jobs]_vars

\* C1 witness: between two jobs of a fan-out, with a success and a failure tallied
C1_Witness ==
    /\ pc = "fanout"
    /\ successful_count >= 1
    /\ failed_count >= 1
    /\ total_fonts_processed = Len(jobs)

C4_ExitStatusDecides ==
    (last.invoked /\ last.run \in {"exit_zero", "exit_nonzero"}) =>
        (last.ret <=> (last.run = "exit_zero"))

C6_FatalPrecondition ==
    (~source_dir_exists \/ ~text_file_exists) =>
        /\ pc \in {"start", "aborted"}
        /\ jobs = <<>>
        /\ last = NoCall
        /\ successful_count = 0
        /\ failed_count = 0
        /\ total_fonts_processed = 0
        /\ (returned <=> (pc = "aborted"))
        /\ (returned => ~result)

\* C6 witness: the run aborted for the missing character-list file although
\* the source directory holds a font file
C6_Witness ==
    /\ pc = "aborted"
    /\ source_dir_exists
    /\ ~text_file_exists
    /\ get_font_files(listing, caseFold) # <<>>
    /\ returned

\* C7 as stated: the discovered files are the directory entries whose
\* extension is in the allowlist in any letter case, each exactly once, and
\* nothing else.
C7_DiscoveryCaseInsensitive ==
    (pc # "start" /\ PreconditionsHold(source_dir_exists, text_file_exists)) =>
        /\ \A k \in 1..Len(listing) :
               IsFontName(listing[k]) => Occurrences(font_files, listing[k]) = 1
        /\ \A k \in 1..Len(font_files) :
               /\ IsFontName(font_files[k])
               /\ Occurrences(listing, font_files[k]) = 1

\* C8 as stated: a run that passed the start-up checks never ends short of
\* the summary, and at the summary every discovered file has had its calls;
\* without collections the total and the sum of the counters are the number
\* of discovered files.
C8_AlwaysReachesSummary ==
    /\ pc # "crashed"
    /\ (pc = "done") =>
           /\ i = Len(font_files)
           /\ \A p \in 1..Len(font_files) : Covered(p)
           /\ ((\A p \in 1..Len(font_files) : ~IsCollectionName(font_files[p])) =>
                  (/\ total_fonts_processed = Len(font_files)
                   /\ successful_count + failed_count = Len(font_files)))

\* C9: the value batch_compress_fonts returns is True exactly when
\* successful_count > 0; a run that found no font file made no call and
\* returns False, and so does a run all of whose calls failed.
C9_ResultIffSuccess ==
    returned =>
        /\ (result <=> (successful_count > 0))
        /\ ((font_files = <<>>) => (jobs = <<>> /\ total_fonts_processed = 0 /\ ~result))
        /\ ((failed_count = total_fonts_processed) => ~result)

\* C9 witness: the summary of a run that returns True with failures counted
C9_Witness ==
    /\ pc = "done"
    /\ result
    /\ successful_count >= 1
    /\ failed_count >= 1

\* C10 as stated: any two calls of one run that differ in the source file or
\* in the index, and that both went on to build their command, are given
\* different output paths.
C10_OutputsDistinct ==
    \A j, k \in 1..Len(jobs) :
        (/\ jobs[j].invoked
         /\ jobs[k].invoked
         /\ \/ font_files[jobs[j].file_no] # font_files[jobs[k].file_no]
            \/ jobs[j].font_index # jobs[k].font_index)
            => JobOutput(j) # JobOutput(k)

====
